---- MODULE Spec2Model ----
(***************************************************************************)
(* The concurrent chunked aggregation engine of src/multithread/promises.cpp *)
(* (MemoryMap::getChunk, updateRecords, createRecords, printRecords).       *)
(*                                                                         *)
(* A byte is a string: "LF" is '\n', every other byte is its character.    *)
(* Offsets are C offsets from begin_ (0 is the first byte of the mapping). *)
(* A decimal text stands for an integer in hundredths of a degree (12.3 is *)
(* 1230); a temperature held by the program is the float of it.            *)
(***************************************************************************)
EXTENDS Integers, Sequences, FiniteSets, TLC

VARIABLES
    file,        \* the mapped bytes, begin_[0 .. size_-1]
    chunkSize,   \* createRecords' chunkSize
    numWorkers,  \* createRecords' numWorkers
    current_,    \* MemoryMap::current_, as an offset from begin_
    mut_,        \* MemoryMap::mut_: 0 when free, else the worker holding it
    mem,         \* the bytes next to the mapping that a scan has read so far
    pc,          \* position of every worker lambda
    sp,          \* every worker's variable sp (the chunk it holds)
    local,       \* every worker's Records local
    mainpc,      \* position of the orchestrating thread in createRecords/main
    spawned,     \* workers.size(): threads constructed so far
    joined,      \* threads joined so far
    records_v,   \* the Records collected from the futures
    result,      \* createRecords' result
    output,      \* what printRecords wrote
    fault,       \* the process was killed by a read of an unmapped page
    handed,      \* history: every return of getChunk, in the order of the unlocks
    oob,         \* history: offsets outside [0, size_) that getChunk dereferenced
    run,         \* which run of the engine on this file (1 or 2)
    firstOutput, \* what the first run ended with, once a second run started
    released,    \* history: the release calls made (munmap, close), in order
    \* the program of src/test.cpp on the ThreadsafeQueue of src/thread_safe.h
    queue_,      \* ThreadsafeQueue::queue_
    mutex_,      \* ThreadsafeQueue::mutex_: "free" or "locked"
    testpc,      \* position of main in test.cpp
    readerpc,    \* position of the reader thread
    nextItem,    \* the reader's loop variable i
    workerpc,    \* position of every worker thread
    tmp,         \* every worker's tmp in pop
    started,     \* workers.size() in test.cpp
    ended,       \* worker threads joined so far
    popLog       \* history: the values pop returned and to whom, in the order
                 \* of the returns

engineVars ==
    << file, chunkSize, numWorkers, current_, mut_, mem, pc, sp, local,
       mainpc, spawned, joined, records_v, result, output, fault, handed,
       oob, run, firstOutput, released >>

queueVars ==
    << queue_, mutex_, testpc, readerpc, nextItem, workerpc, tmp, started,
       ended, popLog >>

vars == << engineVars, queueVars >>

----------------------------------------------------------------------------
(* Bounds of the model *)

MaxLines == 3
MaxWorkers == 2
MaxChunkSize == 14
MaxAggregates == 3
MaxItems == 3
MaxPoppers == 2

----------------------------------------------------------------------------
(* Bytes and input files *)

LF == "LF"

Digits == << "0", "1", "2", "3", "4", "5", "6", "7", "8", "9" >>

\* a byte of the zero fill after the end of the file in its last page
Other == "other"

\* The bytes the model's files use, in ascending byte (ASCII) order.
Alphabet ==
    << Other, LF, "-", "." >> \o Digits \o << ";", "a", "b", "k" >>

RECURSIVE Flatten(_)
Flatten(ls) ==
    IF ls = << >> THEN << >> ELSE Head(ls) \o << LF >> \o Flatten(Tail(ls))

\* Without the trailing newline of the last line.
ChopLast(bytes) == SubSeq(bytes, 1, Len(bytes) - 1)

FilesOf(catalogue, maxLines) ==
    LET texts == UNION { [1..n -> catalogue] : n \in 1..maxLines }
    IN  { << >> } \cup { Flatten(t) : t \in texts }
                \cup { ChopLast(Flatten(t)) : t \in texts }

Catalogue ==
    { << "a", ";", "1", ".", "0" >>,
      << "b", ";", "-", "2", ".", "5" >> }

Files == FilesOf(Catalogue, MaxLines)

size_ == Len(file)

----------------------------------------------------------------------------
(* Memory next to the mapping.  The byte at offset size_ (one past the     *)
(* mapping) and the byte at offset -1 are not part of the file: the first  *)
(* read of one of them finds a newline, some other byte (the zero fill of  *)
(* the last page) or an unmapped page, and later reads find the same.      *)

Unread == "unread"
Unmapped == "unmapped"

Refinements(now) ==
    { m \in [before : {LF, Other, Unmapped}, after : {LF, Other, Unmapped}] :
        /\ now.before # Unread => m.before = now.before
        /\ now.after # Unread => m.after = now.after }

\* mem after the reads of the offsets in `reads`, which found what m holds
Resolve(now, m, reads) ==
    [before |-> IF -1 \in reads THEN m.before ELSE now.before,
     after  |-> IF size_ \in reads THEN m.after ELSE now.after]

\* *(begin_ + i)
ByteAt(m, i) ==
    IF i >= 0 /\ i < size_ THEN file[i + 1]
    ELSE IF i >= size_ THEN m.after
    ELSE m.before

----------------------------------------------------------------------------
(* MemoryMap::getChunk *)

Least(set) == CHOOSE x \in set : \A y \in set : x <= y

Greatest(set) == CHOOSE x \in set : \A y \in set : x >= y

\* getChunk without its while loop: end stays where the clamping left it
ScanBackNoLoop(m, end) == [at |-> end, ok |-> ByteAt(m, end) # Unmapped]

\* while (*end != '\n') end--;
\* at: the offset the loop stops at; ok: FALSE when the read at `at` hit an
\* unmapped page, or left the mapping downwards through a byte that is no
\* newline (the loop then runs on through foreign memory: the model ends
\* such a run as faulted).
\* The loop goes down from end to the first offset where it stops.
ScanBack(m, end) ==
    LET stops == { e \in -1 .. end :
                     ByteAt(m, e) = LF \/ ByteAt(m, e) = Unmapped \/ e < 0 }
        at == Greatest(stops)
    IN  [at |-> at, ok |-> ByteAt(m, at) = LF]

\* end = current_ + bufferSize, clamped to begin_ + size_, and the extra check
\* if ((end + 1) == begin_ + size_) end--;
ScanStart(cur, bufferSize) ==
    LET end == IF cur + bufferSize > size_ THEN size_ ELSE cur + bufferSize
    IN  IF end + 1 = size_ THEN end - 1 ELSE end

\* The span getChunk returns from cursor cur ([first, last) as offsets), the
\* offsets it dereferences on the way, and whether it survives them.
GetChunk(cur, bufferSize, m) ==
    IF bufferSize >= size_
    THEN [first |-> cur, last |-> size_, reads |-> {}, ok |-> TRUE]
    ELSE IF cur = size_
    THEN [first |-> cur, last |-> cur, reads |-> {}, ok |-> TRUE]
    ELSE LET start == ScanStart(cur, bufferSize)
             found == ScanBack(m, start)
         IN  [first |-> cur, last |-> found.at + 1,
              reads |-> found.at .. start, ok |-> found.ok]

Empty(span) == span.first = span.last

----------------------------------------------------------------------------
(* float: the IEEE 754 binary32 numbers of struct Stat.  A float is         *)
(* [m, e] and stands for m * 2^e; m is 0 (then e is 0) or has              *)
(* Two23 <= |m| < Two24, so that every number has one representation.      *)
(* Every operation rounds its exact result to the nearest float, to the    *)
(* one with an even m of two equally near, as the hardware does.  (No file *)
(* of the model reaches infinities, subnormals or a negative zero.)        *)

Two23 == 8388608
Two24 == 16777216

RECURSIVE Pow2(_)
Pow2(n) == IF n <= 0 THEN 1 ELSE 2 * Pow2(n - 1)

Abs(i) == IF i < 0 THEN 0 - i ELSE i

Zero == [m |-> 0, e |-> 0]

\* the float m * 2^e for Two23 <= m <= Two24, with the sign given
Signed(neg, m, e) ==
    LET n == IF m = Two24 THEN Two23 ELSE m
        x == IF m = Two24 THEN e + 1 ELSE e
    IN  [m |-> IF neg THEN 0 - n ELSE n, e |-> x]

\* num doubled s times more, until num >= den * Two23
RECURSIVE ScaleUp(_, _, _)
ScaleUp(num, den, s) ==
    IF num >= den * Two23 THEN [num |-> num, s |-> s]
    ELSE ScaleUp(2 * num, den, s + 1)

\* num and s halved until num < Two24; odd: a one was shifted out
RECURSIVE ScaleDown(_, _, _, _)
ScaleDown(num, s, half, odd) ==
    IF num < Two24 THEN [num |-> num, s |-> s, half |-> half, odd |-> odd]
    ELSE ScaleDown(num \div 2, s + 1, num % 2 = 1, odd \/ half)

\* the float nearest to (num / den) * 2^e, for 0 <= num / den < Two24 and
\* den > 0
RoundQuotient(neg, num, den, e) ==
    IF num = 0 THEN Zero
    ELSE LET up == ScaleUp(num, den, 0)
             q == up.num \div den
             r == up.num % den
             more == 2 * r > den \/ (2 * r = den /\ q % 2 = 1)
         IN  Signed(neg, IF more THEN q + 1 ELSE q, e - up.s)

\* the float nearest to num * 2^e, for num >= 0
RoundInteger(neg, num, e) ==
    IF num < Two24 THEN RoundQuotient(neg, num, 1, e)
    ELSE LET down == ScaleDown(num, 0, FALSE, FALSE)
             more == down.half /\ (down.odd \/ down.num % 2 = 1)
         IN  Signed(neg, IF more THEN down.num + 1 ELSE down.num, e + down.s)

\* a sum that is never added to
FloatAddKeepsFirst(x, y) == x

\* float + float.  The operand of the smaller exponent is aligned to an
\* eighth of the other's last place, keeping whether anything was cut off
\* in its last bit, which decides the rounding as the exact sum would.
FloatAdd(x, y) ==
    IF x.m = 0 THEN y
    ELSE IF y.m = 0 THEN x
    ELSE LET big == IF x.e >= y.e THEN x ELSE y
             small == IF x.e >= y.e THEN y ELSE x
             d == big.e - small.e
             cut == IF d - 3 >= 25 THEN Two24 * 2 ELSE Pow2(d - 3)
             whole == IF d <= 3 THEN Abs(small.m) * Pow2(3 - d)
                      ELSE Abs(small.m) \div cut
             sticky == d > 3 /\ Abs(small.m) % cut # 0 /\ whole % 2 = 0
             aligned == IF sticky THEN whole + 1 ELSE whole
             sum == 8 * big.m + (IF small.m < 0 THEN 0 - aligned ELSE aligned)
         IN  RoundInteger(sum < 0, Abs(sum), big.e - 3)

\* float / int, the int converted to float first (exact for a small int)
FloatDiv(x, n) == RoundQuotient(x.m < 0, Abs(x.m), n, x.e)

\* operator< of float
FloatLess(x, y) ==
    IF x.m < 0 /\ y.m >= 0 THEN TRUE
    ELSE IF x.m >= 0 /\ y.m <= 0 THEN FALSE
    ELSE IF x.m = 0 THEN TRUE
    ELSE IF x.m > 0 THEN x.e < y.e \/ (x.e = y.e /\ x.m < y.m)
    ELSE x.e > y.e \/ (x.e = y.e /\ x.m < y.m)

\* std::min and std::max of two floats
FloatMin(a, b) == IF FloatLess(b, a) THEN b ELSE a

FloatMax(a, b) == IF FloatLess(a, b) THEN b ELSE a

\* the float from_chars gives for the decimal of h hundredths
FloatOf(h) == RoundQuotient(h < 0, Abs(h), 100, 0)

----------------------------------------------------------------------------
(* updateRecords *)

IsDigit(c) == \E k \in 1..Len(Digits) : Digits[k] = c

DigitValue(c) == (CHOOSE k \in 1..Len(Digits) : Digits[k] = c) - 1

\* the number of consecutive digits of text from index i on
RECURSIVE DigitRun(_, _)
DigitRun(text, i) ==
    IF i <= Len(text) /\ IsDigit(text[i]) THEN 1 + DigitRun(text, i + 1) ELSE 0

\* the value of the n digits of text from index i on
RECURSIVE Decimal(_, _, _)
Decimal(text, i, n) ==
    IF n = 0 THEN 0
    ELSE 10 * Decimal(text, i, n - 1) + DigitValue(text[i + n - 1])

\* std::from_chars(first, last, float&): the longest prefix of text that is
\* an optional '-', digits, and optionally '.' and digits, with a digit
\* somewhere.  ok: ec == std::errc{}; decimal: the number matched, in
\* hundredths (no file of the model has a third fractional digit); value:
\* the float written to temp; examined: the bytes of text read.
FromChars(text) ==
    LET neg == Len(text) >= 1 /\ text[1] = "-"
        i0 == IF neg THEN 2 ELSE 1
        nInt == DigitRun(text, i0)
        dot == i0 + nInt <= Len(text) /\ text[i0 + nInt] = "."
        nFrac == IF dot THEN DigitRun(text, i0 + nInt + 1) ELSE 0
        last == IF dot /\ nInt + nFrac > 0 THEN i0 + nInt + nFrac
                ELSE i0 + nInt - 1
        tenths == IF nFrac >= 1 THEN DigitValue(text[i0 + nInt + 1]) ELSE 0
        cents == IF nFrac >= 2 THEN DigitValue(text[i0 + nInt + 2]) ELSE 0
        abs == 100 * Decimal(text, i0, nInt) + 10 * tenths + cents
    IN  [ok |-> nInt + nFrac > 0,
         decimal |-> IF neg THEN 0 - abs ELSE abs,
         value |-> FloatOf(IF neg THEN 0 - abs ELSE abs),
         examined |-> IF last + 1 <= Len(text) THEN last + 1 ELSE Len(text)]

\* std::find(begin, sp.end(), '\n'): first offset in begin .. end-1 holding a
\* newline, else end
FindLF(m, begin, end) ==
    LET hits == { i \in begin .. end - 1 : ByteAt(m, i) = LF }
    IN  IF begin >= end THEN begin
        ELSE IF hits = {} THEN end
        ELSE Least(hits)

\* record.find_first_of(';') from index i on: the index of the first ';' in
\* record, 0 for npos
FindSep(record, i) ==
    LET hits == { k \in i .. Len(record) : record[k] = ";" }
    IN  IF hits = {} THEN 0 ELSE Least(hits)

\* One pass of the loop body on the record at offset begin of the chunk that
\* ends at end.  The record view is [begin, stop + 1): when the chunk holds
\* no newline from begin on, it takes in the byte after the chunk.
\* size: record.size(); place, temp: place_sv and temp_sv (npos + 1 wraps to
\* 0, so without a ';' both are the whole record); parsed: from_chars' answer;
\* reads: the offsets the body dereferences.
ParseRecord(m, begin, end) ==
    LET stop == FindLF(m, begin, end)
        record == [i \in 1..(stop + 1 - begin) |-> ByteAt(m, begin + i - 1)]
        sep == FindSep(record, 1)
        place == IF sep = 0 THEN record ELSE SubSeq(record, 1, sep - 1)
        temp == SubSeq(record, sep + 1, Len(record))
        parsed == FromChars(temp)
        scanned == IF sep = 0 THEN Len(record) ELSE sep
    IN  [size |-> Len(record), place |-> place, parsed |-> parsed,
         reads |-> begin .. (begin + scanned - 1)
                   \cup (begin + sep) .. (begin + sep + parsed.examined - 1)]

\* a fold that counts a key once, at its emplace
FoldCountOnce(records, place, temp) ==
    IF place \in DOMAIN records
    THEN [records EXCEPT ![place] =
            [min |-> FloatMin(@.min, temp),
             max |-> FloatMax(@.max, temp),
             sum |-> FloatAdd(@.sum, temp),
             nRecords |-> @.nRecords]]
    ELSE records @@ (place :> [min |-> temp, max |-> temp, sum |-> temp,
                               nRecords |-> 1])

\* records.find / records.emplace / the update of the Stat found
Fold(records, place, temp) ==
    IF place \in DOMAIN records
    THEN [records EXCEPT ![place] =
            [min |-> FloatMin(@.min, temp),
             max |-> FloatMax(@.max, temp),
             sum |-> FloatAdd(@.sum, temp),
             nRecords |-> @.nRecords + 1]]
    ELSE records @@ (place :> [min |-> temp, max |-> temp, sum |-> temp,
                               nRecords |-> 1])

\* updateRecords with break in the place of continue: the first record
\* that from_chars fails on ends the loop
RECURSIVE UpdateRecordsStopAtSkip(_, _, _, _)
UpdateRecordsStopAtSkip(m, begin, end, records) ==
    IF begin >= end THEN [records |-> records, reads |-> {}]
    ELSE LET r == ParseRecord(m, begin, end)
             rest == UpdateRecordsStopAtSkip(m, begin + r.size, end,
                        Fold(records, r.place, r.parsed.value))
         IN  IF r.parsed.ok
             THEN [records |-> rest.records, reads |-> r.reads \cup rest.reads]
             ELSE [records |-> records, reads |-> r.reads]

\* updateRecords(sp, records), from offset begin of the chunk on
\* records: the map at return; reads: every offset dereferenced
RECURSIVE UpdateRecords(_, _, _, _)
UpdateRecords(m, begin, end, records) ==
    IF begin >= end THEN [records |-> records, reads |-> {}]
    ELSE LET r == ParseRecord(m, begin, end)
             rest == UpdateRecords(m, begin + r.size, end,
                        IF r.parsed.ok
                        THEN Fold(records, r.place, r.parsed.value)
                        ELSE records)
         IN  [records |-> rest.records, reads |-> r.reads \cup rest.reads]

----------------------------------------------------------------------------
(* createRecords' merge loop and printRecords *)

\* a merge loop that only inserts: a key already present keeps its Stat
MergeEntryKeepFirst(res, key, value) ==
    IF key \notin DOMAIN res THEN res @@ (key :> value) ELSE res

\* the body of the inner merge loop for one [key, value] of a worker's map
MergeEntry(res, key, value) ==
    IF key \notin DOMAIN res THEN res @@ (key :> value)
    ELSE [res EXCEPT ![key] =
            [min |-> FloatMin(@.min, value.min),
             max |-> FloatMax(@.max, value.max),
             sum |-> FloatAdd(@.sum, value.sum),
             nRecords |-> @.nRecords + value.nRecords]]

\* for (const auto& [key, value] : map), over the keys not merged yet
RECURSIVE MergeMap(_, _, _)
MergeMap(res, map, keys) ==
    IF keys = {} THEN res
    ELSE LET key == CHOOSE k \in keys : TRUE
         IN  MergeMap(MergeEntry(res, key, map[key]), map, keys \ {key})

\* for (const auto& map : records_v), from the i-th map on
RECURSIVE MergeAll(_, _, _)
MergeAll(res, maps, i) ==
    IF i > Len(maps) THEN res
    ELSE MergeAll(MergeMap(res, maps[i], DOMAIN maps[i]), maps, i + 1)

Code(c) == CHOOSE k \in 1..Len(Alphabet) : Alphabet[k] = c

\* std::string's operator<: byte-wise lexicographic order
StringLess(a, b) ==
    LET n == IF Len(a) < Len(b) THEN Len(a) ELSE Len(b)
        differ == { i \in 1 .. n : a[i] # b[i] }
    IN  IF differ = {} THEN Len(a) < Len(b)
        ELSE Code(a[Least(differ)]) < Code(b[Least(differ)])

\* sortStations without std::ranges::sort: the keys in the order of the
\* hash table, which is any order (here the descending one)
RECURSIVE KeysUnsorted(_)
KeysUnsorted(keys) ==
    IF keys = {} THEN << >>
    ELSE LET last == CHOOSE k \in keys :
                       \A o \in keys \ {k} : StringLess(o, k)
         IN  << last >> \o KeysUnsorted(keys \ {last})

\* sortStations: the keys in ascending order
RECURSIVE SortStations(_)
SortStations(keys) ==
    IF keys = {} THEN << >>
    ELSE LET least == CHOOSE k \in keys :
                        \A o \in keys \ {k} : StringLess(k, o)
         IN  << least >> \o SortStations(keys \ {least})

\* {:.1f} of a float below Pow2(27) in size: its sign and the tenths nearest
\* to its exact value, the even one of two equally near
Format1(x) ==
    LET num == 10 * Abs(x.m)
        den == IF x.e <= -30 THEN Pow2(30) ELSE Pow2(0 - x.e)
        q == IF x.e >= 0 THEN num * Pow2(x.e) ELSE num \div den
        r == IF x.e >= 0 THEN 0 ELSE num % den
        more == 2 * r > den \/ (2 * r = den /\ q % 2 = 1)
    IN  [neg |-> x.m < 0, tenths |-> IF more THEN q + 1 ELSE q]

\* printStat: one "key=min/mean/max" entry
PrintStat(r, key) ==
    [key |-> key,
     min |-> Format1(r[key].min),
     mean |-> Format1(FloatDiv(r[key].sum, r[key].nRecords)),
     max |-> Format1(r[key].max)]

\* the entries of sorted[i..], with ", " after all but the last
RECURSIVE PrintFrom(_, _, _)
PrintFrom(r, sorted, i) ==
    IF i = Len(sorted) THEN << PrintStat(r, sorted[i]) >>
    ELSE << PrintStat(r, sorted[i]), ", " >> \o PrintFrom(r, sorted, i + 1)

\* printRecords on a map with at least one key
PrintRecords(r) ==
    << "{" >> \o PrintFrom(r, SortStations(DOMAIN r), 1) \o << "}" >>

----------------------------------------------------------------------------
(* The state machine: createRecords, its worker lambdas, and main *)

Workers == 1..numWorkers

NoSpan == [first |-> 0, last |-> 0]

\* test.cpp: q has been constructed and no thread started
QueueConstructed ==
    /\ queue_ = << >>
    /\ mutex_ = "free"
    /\ testpc = "reader"
    /\ readerpc = "idle"
    /\ nextItem = 0
    /\ workerpc = [w \in 0 .. MaxPoppers - 1 |-> "idle"]
    /\ tmp = [w \in 0 .. MaxPoppers - 1 |-> 0]
    /\ started = 0
    /\ ended = 0
    /\ popLog = << >>

\* The state once MemoryMap's constructor has returned (or thrown: mmap
\* fails with EINVAL on a file of length 0; main has no handler, so the
\* process is ended by std::terminate) for the given file and parameters of
\* createRecords.
Constructed(f, cs, nw) ==
    /\ file = f
    /\ chunkSize = cs
    /\ numWorkers = nw
    /\ current_ = 0
    /\ mut_ = 0
    /\ mem = [before |-> Unread, after |-> Unread]
    /\ pc = [w \in 1..nw |-> "idle"]
    /\ sp = [w \in 1..nw |-> NoSpan]
    /\ local = [w \in 1..nw |-> << >>]
    /\ mainpc = IF Len(f) = 0 THEN "threw" ELSE "spawn"
    /\ spawned = 0
    /\ joined = 0
    /\ records_v = << >>
    /\ result = << >>
    /\ output = << >>
    /\ fault = FALSE
    /\ handed = << >>
    /\ oob = {}
    /\ released = << >>
    /\ QueueConstructed

ChunkSizes == 0 .. MaxChunkSize

Init ==
    /\ \E f \in Files, cs \in ChunkSizes, nw \in 1..MaxWorkers :
          Constructed(f, cs, nw)
    /\ run = 1
    /\ firstOutput = << >>

\* workers.emplace_back(...): the next thread starts
Spawn ==
    /\ ~fault
    /\ mainpc = "spawn"
    /\ pc' = [pc EXCEPT ![spawned + 1] = "get"]
    /\ spawned' = spawned + 1
    /\ mainpc' = IF spawned + 1 = numWorkers THEN "join" ELSE "spawn"
    /\ UNCHANGED << file, chunkSize, numWorkers, current_, mut_, mem, sp,
                    local, joined, records_v, result, output, fault, handed,
                    oob, run, firstOutput, released >>
    /\ UNCHANGED queueVars

\* getChunk without the lock_guard, as in src/sv_vector.cpp
CanLockNoMutex(w) == TRUE

\* std::lock_guard's constructor can take mut_
CanLock(w) == mut_ = 0

\* getChunk, from std::lock_guard<std::mutex> lk(mut_) and the first read of
\* current_ to the construction of result
Scan(w) ==
    /\ ~fault
    /\ pc[w] = "get"
    /\ CanLock(w)
    /\ mut_' = w
    /\ \E m \in Refinements(mem) :
          LET g == GetChunk(current_, chunkSize, m) IN
          /\ mem' = Resolve(mem, m, g.reads)
          /\ oob' = oob \cup (g.reads \ (0 .. size_ - 1))
          /\ fault' = ~g.ok
          /\ sp' = IF g.ok
                   THEN [sp EXCEPT ![w] = [first |-> g.first, last |-> g.last]]
                   ELSE sp
          /\ pc' = [pc EXCEPT ![w] = IF g.ok THEN "advance" ELSE "killed"]
    /\ UNCHANGED << file, chunkSize, numWorkers, current_, local, mainpc,
                    spawned, joined, records_v, result, output, handed, run,
                    firstOutput, released >>
    /\ UNCHANGED queueVars

\* getChunk, the write of current_ and the return (lk's destructor
\* unlocks), and what the lambda does with the chunk before it calls getChunk
\* again, all of it on data of this worker alone: an empty chunk ends the
\* loop, p.set_value(std::move(local)) and the thread; any other chunk goes
\* to updateRecords(sp, local).
Advance(w) ==
    /\ ~fault
    /\ pc[w] = "advance"
    /\ current_' = sp[w].last
    /\ mut_' = 0
    /\ handed' = Append(handed, sp[w])
    /\ \E m \in Refinements(mem) :
          LET u == UpdateRecords(m, sp[w].first, sp[w].last, local[w])
              died == size_ \in u.reads /\ m.after = Unmapped
          IN
          /\ mem' = Resolve(mem, m, u.reads)
          /\ fault' = died
          /\ local' = IF died THEN local ELSE [local EXCEPT ![w] = u.records]
          /\ pc' = [pc EXCEPT ![w] = IF died THEN "killed"
                                     ELSE IF Empty(sp[w]) THEN "done"
                                     ELSE "get"]
    /\ UNCHANGED << file, chunkSize, numWorkers, sp, mainpc, spawned, joined,
                    records_v, result, output, oob, run, firstOutput, released >>
    /\ UNCHANGED queueVars

\* a loop over the workers that does not wait for them
JoinableNoWait(w) == TRUE

\* w.join() returns: the thread's lambda has returned
Joinable(w) == pc[w] = "done"

\* w.join(), in the order of the workers
Join ==
    /\ ~fault
    /\ mainpc = "join"
    /\ Joinable(joined + 1)
    /\ joined' = joined + 1
    /\ mainpc' = IF joined + 1 = numWorkers THEN "collect" ELSE "join"
    /\ UNCHANGED << file, chunkSize, numWorkers, current_, mut_, mem, pc, sp,
                    local, spawned, records_v, result, output, fault, handed,
                    oob, run, firstOutput, released >>
    /\ UNCHANGED queueVars

\* records_v.push_back(f.get()) for every future
Collect ==
    /\ ~fault
    /\ mainpc = "collect"
    /\ records_v' = [w \in 1..numWorkers |-> local[w]]
    /\ mainpc' = "merge"
    /\ UNCHANGED << file, chunkSize, numWorkers, current_, mut_, mem, pc, sp,
                    local, spawned, joined, result, output, fault, handed,
                    oob, run, firstOutput, released >>
    /\ UNCHANGED queueVars

\* the merge loop and return result
Merge ==
    /\ ~fault
    /\ mainpc = "merge"
    /\ result' = MergeAll(<< >>, records_v, 1)
    /\ mainpc' = "return"
    /\ UNCHANGED << file, chunkSize, numWorkers, current_, mut_, mem, pc, sp,
                    local, spawned, joined, records_v, output, fault, handed,
                    oob, run, firstOutput, released >>
    /\ UNCHANGED queueVars

\* m's destructor as createRecords returns: the body of ~MemoryMap, and then
\* the destructor of its member fhandler_
DestructorsCloseFirst == << "close", "munmap" >>

Destructors == << "munmap", "close" >>

\* createRecords returns: m is destroyed, one release call at a step
Release ==
    /\ ~fault
    /\ mainpc = "return"
    /\ released' = Append(released, Destructors[Len(released) + 1])
    /\ mainpc' = IF Len(released) + 1 = Len(Destructors) THEN "print"
                 ELSE "return"
    /\ UNCHANGED << file, chunkSize, numWorkers, current_, mut_, mem, pc, sp,
                    local, spawned, joined, records_v, result, output, fault,
                    handed, oob, run, firstOutput >>
    /\ UNCHANGED queueVars

\* printRecords(records).  On an empty map std::prev(sortedStations.end())
\* is before begin(): the loop runs through foreign memory and the run ends
\* abnormally, having written '{'.
MainPrint ==
    /\ ~fault
    /\ mainpc = "print"
    /\ IF DOMAIN result = {}
       THEN /\ output' = << "{" >>
            /\ fault' = TRUE
            /\ mainpc' = mainpc
       ELSE /\ output' = PrintRecords(result)
            /\ fault' = fault
            /\ mainpc' = "exit"
    /\ UNCHANGED << file, chunkSize, numWorkers, current_, mut_, mem, pc, sp,
                    local, spawned, joined, records_v, result, handed, oob,
                    run, firstOutput, released >>
    /\ UNCHANGED queueVars

Next ==
    \/ Spawn
    \/ \E w \in Workers : Scan(w)
    \/ \E w \in Workers : Advance(w)
    \/ Join
    \/ Collect
    \/ Merge
    \/ Release
    \/ MainPrint

Spec == Init /\ [][Next]_vars

----------------------------------------------------------------------------
(* Notions the properties below are stated with *)

\* offsets at which a record of the file starts
RecordStarts ==
    IF size_ = 0 THEN {}
    ELSE {0} \cup { i + 1 : i \in { j \in 0 .. size_ - 2 : file[j + 1] = LF } }

\* the bytes of the record that starts at pos, its newline included when it
\* has one
RecordLen(pos) ==
    LET e == FindLF(mem, pos, size_)
    IN  IF e < size_ THEN e + 1 - pos ELSE size_ - pos

\* the same with the newline counted also for a last record that lacks it
TerminatedLen(pos) == FindLF(mem, pos, size_) + 1 - pos

\* chunkSize is at least the longest record of the file, newline included
WithinContract == \A pos \in RecordStarts : chunkSize >= TerminatedLen(pos)

Bytes(span) == span.first .. span.last - 1

Returned == 1 .. Len(handed)

\* getChunk has returned an empty chunk
Exhausted == \E i \in Returned : Empty(handed[i])

FirstEmpty == CHOOSE i \in Returned :
                 Empty(handed[i]) /\ \A j \in 1 .. i - 1 : ~Empty(handed[j])

----------------------------------------------------------------------------
(* Properties of the chunk dispenser *)

\* C1: once getChunk has returned its first empty chunk, every byte of the
\* mapped range lies in one of the chunks returned before it (chunk size at
\* least the longest record).
C1_ChunksCoverFile ==
    (WithinContract /\ Exhausted) =>
        \A b \in 0 .. size_ - 1 :
            \E i \in 1 .. FirstEmpty - 1 : b \in Bytes(handed[i])

\* C2: at most one worker is between the read and the write of the cursor,
\* and it holds the mutex; any two chunks handed out are disjoint byte
\* ranges.
C2_ChunksDisjoint ==
    /\ \A w \in Workers : pc[w] = "advance" => mut_ = w
    /\ \A i, j \in Returned :
          i < j => Bytes(handed[i]) \cap Bytes(handed[j]) = {}

\* two workers have each been handed, and have aggregated, a chunk
C2_Witness ==
    /\ \E v, w \in Workers : v # w /\ local[v] # << >> /\ local[w] # << >>
    /\ \E i, j \in Returned :
          i < j /\ ~Empty(handed[i]) /\ ~Empty(handed[j])

\* C3: every non-empty chunk returned, except one that ends at end-of-file,
\* ends immediately after a newline byte.
C3_ChunksEndAfterNewline ==
    \A i \in Returned :
        (~Empty(handed[i]) /\ handed[i].last # size_) =>
            ByteAt(mem, handed[i].last - 1) = LF

\* a chunk that ends inside the file was cut out of a file larger than the
\* chunk size
C3_Witness ==
    /\ chunkSize < size_
    /\ \E i \in Returned : ~Empty(handed[i]) /\ handed[i].last < size_

\* C4: a call that finds at most chunkSize bytes after the cursor returns
\* all of them.
C4_RemainderInOneChunk ==
    \A i \in Returned :
        (handed[i].first <= size_ /\ size_ - handed[i].first <= chunkSize) =>
            handed[i].last >= size_

\* C5: getChunk dereferences no address outside [begin_, begin_ + size_)
\* (chunk size at least the longest record).
C5_ScanStaysInMapping == WithinContract => oob = {}

\* C6: a returned chunk is empty exactly when the cursor was at end-of-file,
\* and after an empty chunk every later chunk is empty and the cursor stays
\* (chunk size at least the longest record).
C6_EmptyOnlyAtEndOfFile ==
    WithinContract =>
        /\ \A i \in Returned : Empty(handed[i]) <=> handed[i].first = size_
        /\ \A i, j \in Returned :
              (i < j /\ Empty(handed[i])) => handed[j] = handed[i]

\* C7: a call whose chunkSize is smaller than the record at the cursor
\* returns a non-empty chunk longer than chunkSize that holds that whole
\* record, so the scan did not stop before the cursor (stated for the calls
\* whose cursor is past begin_, where the byte before the cursor is mapped).
C7_SmallBoundGivesWholeRecord ==
    \A i \in Returned :
        (handed[i].first \in RecordStarts \ {0}
            /\ chunkSize < RecordLen(handed[i].first)) =>
            /\ ~Empty(handed[i])
            /\ handed[i].last - handed[i].first > chunkSize
            /\ handed[i].last >= handed[i].first + RecordLen(handed[i].first)

\* C8: every chunk returned out of the mapping has at most chunkSize bytes
\* (chunk size at least the longest record).
C8_ChunkAtMostMaxSize ==
    WithinContract =>
        \A i \in Returned :
            handed[i].last <= size_ =>
                handed[i].last - handed[i].first <= chunkSize

----------------------------------------------------------------------------
(* The aggregate a sequential pass over the file gives *)

\* the bytes of the line that starts at pos, without its newline
LineAt(pos) ==
    LET e == FindLF(mem, pos, size_)
    IN  [i \in 1 .. e - pos |-> file[pos + i]]

\* -?\d{1,2}\.\d
IsValue(text) ==
    LET body == IF text # << >> /\ Head(text) = "-" THEN Tail(text) ELSE text
        n == Len(body)
    IN  /\ n \in {3, 4}
        /\ body[n - 1] = "."
        /\ \A i \in (1 .. n) \ {n - 1} : IsDigit(body[i])

\* the number such a text stands for, in hundredths
DecimalOf(text) ==
    LET neg == Head(text) = "-"
        body == IF neg THEN Tail(text) ELSE text
        n == Len(body)
        abs == 100 * Decimal(body, 1, n - 2) + 10 * DigitValue(body[n])
    IN  IF neg THEN 0 - abs ELSE abs

\* a line is a valid record: a key of at least one byte, ';', a value
IsRecord(line) ==
    LET sep == FindSep(line, 1)
    IN  sep > 1 /\ IsValue(SubSeq(line, sep + 1, Len(line)))

\* min, max, sum and count of the valid records from offset pos on, folded
\* left to right into agg
RECURSIVE SequentialFold(_, _)
SequentialFold(agg, pos) ==
    IF pos >= size_ THEN agg
    ELSE LET line == LineAt(pos)
             sep == FindSep(line, 1)
             key == SubSeq(line, 1, sep - 1)
             v == FloatOf(DecimalOf(SubSeq(line, sep + 1, Len(line))))
             next == IF ~IsRecord(line) THEN agg
                     ELSE IF key \notin DOMAIN agg
                     THEN agg @@ (key :> [min |-> v, max |-> v, sum |-> v,
                                          nRecords |-> 1])
                     ELSE [agg EXCEPT ![key] =
                             [min |-> FloatMin(@.min, v),
                              max |-> FloatMax(@.max, v),
                              sum |-> FloatAdd(@.sum, v),
                              nRecords |-> @.nRecords + 1]]
         IN  SequentialFold(next, pos + Len(line) + 1)

\* C9: the FinalAggregate createRecords returns is the min, max, sum and
\* count of one sequential fold over the valid records of the file (chunk
\* size at least the longest record).
C9_ResultIsSequentialFold ==
    (WithinContract /\ mainpc \in {"return", "print", "exit"}) =>
        result = SequentialFold(<< >>, 0)

----------------------------------------------------------------------------
(* Two runs of the engine on one file *)

MaxKeyLen == 100
MinChunkSize == 128

LongKey == [i \in 1 .. MaxKeyLen |-> "k"]

CatalogueTwoRuns ==
    { LongKey \o << ";", "1", ".", "0" >>,
      << "a", ";", "-", "2", ".", "5" >> }

ChunkSizesTwoRuns == { MinChunkSize, 4096, 10000000 }

InitTwoRuns ==
    /\ \E f \in FilesOf(CatalogueTwoRuns, MaxLines), cs \in ChunkSizesTwoRuns,
          nw \in 1..MaxWorkers : Constructed(f, cs, nw)
    /\ run = 1
    /\ firstOutput = << >>

\* main has returned; the engine starts again on the same file with another
\* chunk size and another number of workers
Restart ==
    /\ ~fault
    /\ mainpc = "exit"
    /\ run = 1
    /\ \E cs \in ChunkSizesTwoRuns \ {chunkSize},
          nw \in (1..MaxWorkers) \ {numWorkers} :
          /\ chunkSize' = cs
          /\ numWorkers' = nw
          /\ pc' = [w \in 1..nw |-> "idle"]
          /\ sp' = [w \in 1..nw |-> NoSpan]
          /\ local' = [w \in 1..nw |-> << >>]
    /\ run' = 2
    /\ firstOutput' = output
    /\ current_' = 0
    /\ mut_' = 0
    /\ mem' = [before |-> Unread, after |-> Unread]
    /\ mainpc' = "spawn"
    /\ spawned' = 0
    /\ joined' = 0
    /\ records_v' = << >>
    /\ result' = << >>
    /\ output' = << >>
    /\ handed' = << >>
    /\ oob' = {}
    /\ released' = << >>
    /\ UNCHANGED << file, fault >>
    /\ UNCHANGED queueVars

NextTwoRuns == Next \/ Restart

SpecTwoRuns == InitTwoRuns /\ [][NextTwoRuns]_vars

\* C10: the second run, with another worker count and another chunk size
\* (both at least MinChunkSize), writes the output the first run wrote.
C10_SameOutput ==
    (run = 2 /\ mainpc = "exit") => output = firstOutput

----------------------------------------------------------------------------
(* The merge loop on its own: createRecords from the point where records_v *)
(* holds the workers' maps, for maps of up to two records each              *)

\* records whose floats do not add up exactly: -3.0, -2.9, -2.8 and -2.8
Samples ==
    { [place |-> << "a" >>, temp |-> -300],
      [place |-> << "a" >>, temp |-> -290],
      [place |-> << "a" >>, temp |-> -280],
      [place |-> << "b" >>, temp |-> -280] }

FoldSample(records, s) == Fold(records, s.place, FloatOf(s.temp))

\* the maps updateRecords builds from no, one or two of these records
Aggregates ==
    { << >> } \cup { FoldSample(<< >>, s) : s \in Samples }
              \cup { FoldSample(FoldSample(<< >>, s), t) : s, t \in Samples }

InitMerge ==
    /\ file = << >>
    /\ chunkSize = MaxChunkSize
    /\ numWorkers = MaxAggregates
    /\ current_ = 0
    /\ mut_ = 0
    /\ mem = [before |-> Unread, after |-> Unread]
    /\ pc = [w \in 1..MaxAggregates |-> "done"]
    /\ sp = [w \in 1..MaxAggregates |-> NoSpan]
    /\ local \in [1..MaxAggregates -> Aggregates]
    /\ mainpc = "collect"
    /\ spawned = MaxAggregates
    /\ joined = MaxAggregates
    /\ records_v = << >>
    /\ result = << >>
    /\ output = << >>
    /\ fault = FALSE
    /\ handed = << >>
    /\ oob = {}
    /\ run = 1
    /\ firstOutput = << >>
    /\ released = << >>
    /\ QueueConstructed

NextMerge == Collect \/ Merge \/ Release \/ MainPrint

SpecMerge == InitMerge /\ [][NextMerge]_vars

\* records_v in the order p
Reordered(p) == [i \in 1 .. Len(records_v) |-> records_v[p[i]]]

Orders == Permutations(1 .. Len(records_v))

Merged == mainpc \in {"return", "print", "exit"}

\* C11 as stated: the merge of the same maps in any other order gives the
\* same FinalAggregate.
C11_AnyOrderSameAggregate ==
    Merged => \A p \in Orders : MergeAll(<< >>, Reordered(p), 1) = result

\* C11: the merge of the same maps in any other order gives the same keys
\* and for every key the same min, max and count; the float sum is the same
\* when at most two maps hold the key (float addition is commutative, and
\* not associative).
C11_AnyOrderSameUpToSum ==
    Merged =>
        \A p \in Orders :
            LET other == MergeAll(<< >>, Reordered(p), 1) IN
            /\ DOMAIN other = DOMAIN result
            /\ \A key \in DOMAIN result :
                  /\ other[key].min = result[key].min
                  /\ other[key].max = result[key].max
                  /\ other[key].nRecords = result[key].nRecords
                  /\ Cardinality({ i \in 1 .. Len(records_v) :
                                     key \in DOMAIN records_v[i] }) <= 2
                        => other[key].sum = result[key].sum

\* three maps that hold one key with three different values have been merged
C11_Witness ==
    /\ Merged
    /\ \E key \in DOMAIN result :
          /\ \A i \in 1 .. Len(records_v) : key \in DOMAIN records_v[i]
          /\ Cardinality({ records_v[i][key].sum :
                             i \in 1 .. Len(records_v) }) >= 3

----------------------------------------------------------------------------
(* Files with lines that are no valid record, and with values whose floats *)
(* are inexact                                                              *)

\* a;0.1  a;0.2  1.5 (no separator)  a;12.34 (two fractional digits)
CatalogueLines ==
    { << "a", ";", "0", ".", "1" >>,
      << "a", ";", "0", ".", "2" >>,
      << "1", ".", "5" >>,
      << "a", ";", "1", "2", ".", "3", "4" >> }

\* the longest of these lines with its newline, and more than MaxLines of them
ChunkSizesLines == { 8, 8 * (MaxLines + 1) }

InitLines ==
    /\ \E f \in FilesOf(CatalogueLines, MaxLines), cs \in ChunkSizesLines,
          nw \in 1..MaxWorkers : Constructed(f, cs, nw)
    /\ run = 1
    /\ firstOutput = << >>

SpecLines == InitLines /\ [][Next]_vars

\* the keys of the lines of the file that have a ';'
Places ==
    { SubSeq(LineAt(pos), 1, FindSep(LineAt(pos), 1) - 1) :
        pos \in { q \in RecordStarts : FindSep(LineAt(q), 1) > 0 } }

\* C12: a line without ';' adds no key: every key of a WorkerAggregate is
\* the text before the ';' of a line of the file (stated for the files that
\* end with a newline).
C12_NoSeparatorLineSkipped ==
    (size_ > 0 /\ file[size_] = LF) =>
        \A w \in Workers : DOMAIN local[w] \subseteq Places

\* the floats of the values of the valid records of the file with this key
ValidValues(key) ==
    { FloatOf(DecimalOf(SubSeq(LineAt(pos), FindSep(LineAt(pos), 1) + 1,
                               Len(LineAt(pos))))) :
        pos \in { q \in RecordStarts :
                    /\ IsRecord(LineAt(q))
                    /\ SubSeq(LineAt(q), 1, FindSep(LineAt(q), 1) - 1) = key } }

\* C13: only values of the shape -?\d{1,2}\.\d are folded: the min and the
\* max of every key of a WorkerAggregate are values of valid records of the
\* file with that key (stated for the files that end with a newline, and
\* the keys that stand before a ';').
C13_OnlyShapedValuesFolded ==
    (size_ > 0 /\ file[size_] = LF) =>
        \A w \in Workers :
            \A key \in DOMAIN local[w] \cap Places :
                /\ local[w][key].min \in ValidValues(key)
                /\ local[w][key].max \in ValidValues(key)

----------------------------------------------------------------------------
(* Counts *)

\* the key of the line that starts at pos
KeyAt(pos) == SubSeq(LineAt(pos), 1, FindSep(LineAt(pos), 1) - 1)

\* the starts of the valid records with this key in the chunks handed out
FoldedStarts(key) ==
    { pos \in RecordStarts :
        /\ IsRecord(LineAt(pos))
        /\ KeyAt(pos) = key
        /\ \E i \in Returned : pos \in Bytes(handed[i]) }

\* the count a map holds for a key, 0 when it has no entry for it
CountOf(records, key) ==
    IF key \in DOMAIN records THEN records[key].nRecords ELSE 0

\* the counts of the first n workers' maps for a key, added up
RECURSIVE CountsUpTo(_, _)
CountsUpTo(key, n) ==
    IF n = 0 THEN 0 ELSE CountsUpTo(key, n - 1) + CountOf(local[n], key)

AllKeys == Places \cup UNION { DOMAIN local[w] : w \in Workers }
                  \cup DOMAIN result

\* C14: a key has one entry per map, and its counts over the workers' maps
\* add up to the number of valid records with that key in the chunks
\* processed so far; after the merge the FinalAggregate holds that count.
C14_CountIsRecordsFolded ==
    ~fault =>
        \A key \in AllKeys :
            /\ CountsUpTo(key, numWorkers) = Cardinality(FoldedStarts(key))
            /\ Merged => CountOf(result, key) = Cardinality(FoldedStarts(key))

\* the merge has added the counts of two workers for one key, one of them
\* from more than one record
C14_Witness ==
    /\ Merged
    /\ \E key \in DOMAIN result :
          /\ \A w \in Workers : CountOf(local[w], key) >= 1
          /\ \E w \in Workers : CountOf(local[w], key) >= 2
          /\ result[key].nRecords >= 3

----------------------------------------------------------------------------
(* Bounds of a Stat *)

\* am * 2^ae <= bm * 2^be, exactly, for am and bm that are 0 or at least
\* Two23 and below Pow2(27) in size
ExactLessEq(am, ae, bm, be) ==
    LET d == ae - be IN
    IF d >= 5 THEN am < 0 \/ (am = 0 /\ bm >= 0)
    ELSE IF d <= -5 THEN bm > 0 \/ (bm = 0 /\ am <= 0)
    ELSE IF d >= 0 THEN am * Pow2(d) <= bm
    ELSE am <= bm * Pow2(0 - d)

\* count * min <= sum <= count * max, as real numbers
SumWithinBounds(stat) ==
    /\ ExactLessEq(stat.nRecords * stat.min.m, stat.min.e,
                   stat.sum.m, stat.sum.e)
    /\ ExactLessEq(stat.sum.m, stat.sum.e,
                   stat.nRecords * stat.max.m, stat.max.e)

\* every Stat of the workers' maps and of the FinalAggregate
AllStats ==
    UNION { { local[w][key] : key \in DOMAIN local[w] } : w \in Workers }
        \cup { result[key] : key \in DOMAIN result }

\* no step removes a key from a map
KeysKept ==
    /\ \A w \in Workers : DOMAIN local[w] \subseteq DOMAIN local'[w]
    /\ DOMAIN result \subseteq DOMAIN result'

\* C15 as stated: every Stat has count >= 1, min <= max and
\* count * min <= sum <= count * max.
C15_StatBounds ==
    \A stat \in AllStats :
        /\ stat.nRecords >= 1
        /\ ~FloatLess(stat.max, stat.min)
        /\ SumWithinBounds(stat)

\* C15: every Stat has count >= 1 and min <= max, and
\* count * min <= sum <= count * max when its count is at most 2 (a float
\* sum of more values is rounded more than once and can leave the bounds);
\* no step removes an entry.
C15_StatBoundsUpToRounding ==
    /\ [](\A stat \in AllStats :
             /\ stat.nRecords >= 1
             /\ ~FloatLess(stat.max, stat.min)
             /\ stat.nRecords <= 2 => SumWithinBounds(stat))
    /\ [][KeysKept]_vars

\* a Stat of two different values, and a merged one of three records
C15_Witness ==
    /\ \E stat \in AllStats :
          stat.nRecords = 2 /\ FloatLess(stat.min, stat.max)
    /\ \E key \in DOMAIN result : result[key].nRecords >= 3

----------------------------------------------------------------------------
(* The output *)

\* the number of entries written
Entries == Cardinality(DOMAIN result)

\* C16: for a FinalAggregate with at least one key printRecords writes '{',
\* the entry key=min/mean/max of every key once, in strictly ascending
\* byte order of the keys, ", " between two entries and nowhere else, and
\* '}'.
C16_OutputIsSortedList ==
    mainpc = "exit" =>
        /\ Len(output) = 2 * Entries + 1
        /\ output[1] = "{"
        /\ output[Len(output)] = "}"
        /\ \A i \in 1 .. Entries :
              /\ output[2 * i].key \in DOMAIN result
              /\ output[2 * i] = PrintStat(result, output[2 * i].key)
        /\ \A i \in 1 .. Entries - 1 :
              /\ output[2 * i + 1] = ", "
              /\ StringLess(output[2 * i].key, output[2 * i + 2].key)
        /\ \A key \in DOMAIN result :
              Cardinality({ i \in 1 .. Entries : output[2 * i].key = key }) = 1

\* an output of two entries
C16_Witness ==
    mainpc = "exit" /\ Entries >= 2 /\ Len(output) >= 5

\* C17: a run on an empty file, and a run whose FinalAggregate is empty,
\* ends without error with the output {}.
C17_EmptyGivesBraces ==
    /\ size_ = 0 => mainpc # "threw"
    /\ (DOMAIN result = {} /\ output # << >>) =>
          (~fault /\ output = << "{", "}" >>)

\* every line of the file is a valid record
AllValid == \A pos \in RecordStarts : IsRecord(LineAt(pos))

\* the values of the records that start at these offsets, in hundredths,
\* added up
RECURSIVE DecimalSum(_)
DecimalSum(starts) ==
    IF starts = {} THEN 0
    ELSE LET pos == CHOOSE q \in starts : TRUE
             line == LineAt(pos)
         IN  DecimalOf(SubSeq(line, FindSep(line, 1) + 1, Len(line)))
                 + DecimalSum(starts \ {pos})

\* num / den rounded toward positive infinity, for den > 0
Ceiling(num, den) == 0 - ((0 - num) \div den)

\* the number a formatted field shows, in tenths
Shown(field) == IF field.neg THEN 0 - field.tenths ELSE field.tenths

\* C18: the mean printed for a key is the exact sum of its values over
\* their number, rounded to tenths toward positive infinity (stated for
\* the files all of whose lines are valid records, over the records of the
\* chunks handed out).
C18_MeanRoundedUp ==
    (mainpc = "exit" /\ AllValid) =>
        \A i \in 1 .. Entries :
            LET folded == FoldedStarts(output[2 * i].key) IN
            Shown(output[2 * i].mean)
                = Ceiling(DecimalSum(folded), 10 * Cardinality(folded))

----------------------------------------------------------------------------
(* Threads and the maps *)

\* every worker has returned and has been joined
AllJoined == joined = numWorkers /\ \A w \in Workers : pc[w] = "done"

\* a step changes the map and the chunk of one worker at most, of a worker
\* that is running while the orchestrating thread spawns or joins
OwnerOnly ==
    \A w \in Workers :
        (local'[w] # local[w] \/ sp'[w] # sp[w]) =>
            /\ pc[w] \in {"get", "advance"}
            /\ mainpc \in {"spawn", "join"}
            /\ records_v = << >>
            /\ \A v \in Workers \ {w} :
                  local'[v] = local[v] /\ sp'[v] = sp[v]

\* a step of the orchestrating thread on the maps leaves them as they are
\* and comes after the joins
AfterJoins ==
    (records_v' # records_v \/ result' # result) =>
        (AllJoined /\ local' = local)

\* C19: a WorkerAggregate is touched by its own worker only while that
\* worker runs, and the orchestrating thread collects and merges the maps
\* only when every worker has returned and has been joined.
C19_AggregatesThreadExclusive ==
    /\ [][OwnerOnly /\ AfterJoins]_vars
    /\ [](records_v # << >> => AllJoined)

\* the maps of two workers that both folded records have been collected
C19_Witness ==
    /\ Len(records_v) >= 2
    /\ \A i \in 1 .. Len(records_v) : records_v[i] # << >>

----------------------------------------------------------------------------
(* Release of the mapping and of the file descriptor *)

\* C20: the release calls of a run are munmap and then close, each once;
\* they come when every worker has returned and been joined, so no worker
\* reads a byte of the mapping after munmap; and they have been made when
\* createRecords has returned.
C20_ReleasedOnceAfterJoins ==
    /\ released \in { << >>, << "munmap" >>, << "munmap", "close" >> }
    /\ released # << >> => AllJoined
    /\ mainpc \in {"print", "exit"} => released = << "munmap", "close" >>

\* two workers have read chunks of the mapping, and it has been released
C20_Witness ==
    /\ released = << "munmap", "close" >>
    /\ \E v, w \in Workers : v # w /\ local[v] # << >> /\ local[w] # << >>

----------------------------------------------------------------------------
(* Termination.  The threads run on a scheduler that lets every thread    *)
(* that can take a step take one: a worker that waits for mut_ gets it     *)
(* once the others have stopped calling getChunk.                          *)

Fairness ==
    /\ WF_vars(Spawn)
    /\ WF_vars(Join)
    /\ WF_vars(Collect)
    /\ WF_vars(Merge)
    /\ WF_vars(Release)
    /\ WF_vars(MainPrint)
    /\ \A w \in 1 .. MaxWorkers :
          /\ WF_vars(w \in Workers /\ Scan(w))
          /\ WF_vars(w \in Workers /\ Advance(w))

\* runs on the files of 100-byte keys with the chunk sizes from
\* MinChunkSize on
SpecFair == InitTwoRuns /\ [][Next]_vars /\ Fairness

\* C21: the workers leave their loops with the cursor at end-of-file: when
\* every worker has reached Done (no call of getChunk follows), the cursor
\* has reached the end of the file.
C21_DoneAtEndOfFile ==
    (~fault /\ spawned = numWorkers /\ \A w \in Workers : pc[w] = "done")
        => current_ >= size_

----------------------------------------------------------------------------
(* Files with records that updateRecords skips *)

\* a;0.1  a;b (no number after the separator)  b (no separator, no number)
CatalogueSkips ==
    { << "a", ";", "0", ".", "1" >>,
      << "a", ";", "b" >>,
      << "b" >> }

\* the longest of these lines with its newline, and more than MaxLines of them
ChunkSizesSkips == { 6, 6 * (MaxLines + 1) }

InitSkips ==
    /\ \E f \in FilesOf(CatalogueSkips, MaxLines), cs \in ChunkSizesSkips,
          nw \in 1..MaxWorkers : Constructed(f, cs, nw)
    /\ run = 1
    /\ firstOutput = << >>

SpecSkips == InitSkips /\ [][Next]_vars

\* C22: a skipped record changes no map and ends no chunk: the maps hold
\* the keys of the valid records only, with the min and the max among
\* their values, and the counts of a key add up to the number of valid
\* records with that key in the chunks processed, those after a skipped
\* record included.
C22_SkipLeavesMapAndGoesOn ==
    ~fault =>
        /\ \A w \in Workers :
              \A key \in DOMAIN local[w] :
                  /\ local[w][key].min \in ValidValues(key)
                  /\ local[w][key].max \in ValidValues(key)
        /\ \A key \in AllKeys :
              CountsUpTo(key, numWorkers) = Cardinality(FoldedStarts(key))

\* a chunk with a skipped record and a valid record after it has been
\* processed
C22_Witness ==
    /\ ~fault
    /\ \E i \in Returned :
          \E p, q \in RecordStarts \cap Bytes(handed[i]) :
              p < q /\ ~IsRecord(LineAt(p)) /\ IsRecord(LineAt(q))
    /\ \E w \in Workers : local[w] # << >>

----------------------------------------------------------------------------
(* The cursor *)

\* C23: the cursor stays within [begin_, begin_ + size_] and is at the
\* start of the file, at its end or just after a newline; no chunk ends
\* before it starts, and every chunk starts where the chunk returned
\* before it ended.
C23_CursorInvariant ==
    /\ 0 <= current_ /\ current_ <= size_
    /\ current_ \in {0, size_} \/ ByteAt(mem, current_ - 1) = LF
    /\ \A i \in Returned : handed[i].first <= handed[i].last
    /\ \A i \in 1 .. Len(handed) - 1 : handed[i + 1].first = handed[i].last

\* ------------------------------------------------------------------------
\* ThreadsafeQueue (thread_safe.h) driven by the program of test.cpp

\* the worker ids of test.cpp: 0 .. num_workers - 1
Poppers == 0 .. MaxPoppers - 1

InitQueue ==
    /\ Constructed(<< >>, 1, 1)
    /\ run = 1
    /\ firstOutput = << >>

\* std::lock_guard's constructor returns once no thread holds mutex_
QueueLockIgnored == TRUE

QueueLockFree == mutex_ = "free"

\* main: std::thread reader(oneBRC::reader, std::ref(q))
StartReader ==
    /\ testpc = "reader"
    /\ readerpc' = IF MaxItems = 0 THEN "done" ELSE "push"
    /\ testpc' = "workers"
    /\ UNCHANGED << queue_, mutex_, nextItem, workerpc, tmp, started, ended,
                    popLog >>
    /\ UNCHANGED engineVars

\* main: workers.emplace_back(oneBRC::worker, std::ref(q), i)
StartWorker ==
    /\ testpc = "workers"
    /\ started < MaxPoppers
    /\ workerpc' = [workerpc EXCEPT ![started] = "pop"]
    /\ started' = started + 1
    /\ testpc' = IF started + 1 = MaxPoppers THEN "joinreader" ELSE testpc
    /\ UNCHANGED << queue_, mutex_, readerpc, nextItem, tmp, ended, popLog >>
    /\ UNCHANGED engineVars

\* push: the lock_guard is taken
PushLock ==
    /\ readerpc = "push"
    /\ QueueLockFree
    /\ mutex_' = "locked"
    /\ readerpc' = "locked"
    /\ UNCHANGED << queue_, testpc, nextItem, workerpc, tmp, started, ended,
                    popLog >>
    /\ UNCHANGED engineVars

\* push: queue_.push(item) and the lock_guard is released; reader: i++ and
\* the test of the loop
PushItem ==
    /\ readerpc = "locked"
    /\ queue_' = Append(queue_, nextItem)
    /\ mutex_' = "free"
    /\ nextItem' = nextItem + 1
    /\ readerpc' = IF nextItem + 1 < MaxItems THEN "push" ELSE "done"
    /\ UNCHANGED << testpc, workerpc, tmp, started, ended, popLog >>
    /\ UNCHANGED engineVars

\* pop: the lock_guard is taken
PopLock(w) ==
    /\ workerpc[w] = "pop"
    /\ QueueLockFree
    /\ mutex_' = "locked"
    /\ workerpc' = [workerpc EXCEPT ![w] = "locked"]
    /\ UNCHANGED << queue_, testpc, readerpc, nextItem, tmp, started, ended,
                    popLog >>
    /\ UNCHANGED engineVars

\* pop: if (queue_.empty()) return {}, which ends the worker's while loop;
\* otherwise T tmp = queue_.front()
PopFront(w) ==
    /\ workerpc[w] = "locked"
    /\ IF queue_ = << >>
       THEN /\ mutex_' = "free"
            /\ workerpc' = [workerpc EXCEPT ![w] = "done"]
            /\ tmp' = tmp
       ELSE /\ tmp' = [tmp EXCEPT ![w] = Head(queue_)]
            /\ workerpc' = [workerpc EXCEPT ![w] = "front"]
            /\ mutex_' = mutex_
    /\ UNCHANGED << queue_, testpc, readerpc, nextItem, started, ended,
                    popLog >>
    /\ UNCHANGED engineVars

\* pop: queue_.pop(); return tmp, and the lock_guard is released
PopReturn(w) ==
    /\ workerpc[w] = "front"
    /\ queue_' = IF queue_ = << >> THEN queue_ ELSE Tail(queue_)
    /\ mutex_' = "free"
    /\ popLog' = Append(popLog, [by |-> w, item |-> tmp[w]])
    /\ workerpc' = [workerpc EXCEPT ![w] = "print"]
    /\ UNCHANGED << testpc, readerpc, nextItem, tmp, started, ended >>
    /\ UNCHANGED engineVars

\* worker: the body of the while loop (the line is written, the thread
\* sleeps) and the next pass
Consume(w) ==
    /\ workerpc[w] = "print"
    /\ workerpc' = [workerpc EXCEPT ![w] = "pop"]
    /\ UNCHANGED << queue_, mutex_, testpc, readerpc, nextItem, tmp, started,
                    ended, popLog >>
    /\ UNCHANGED engineVars

\* main: reader.join()
JoinReader ==
    /\ testpc = "joinreader"
    /\ readerpc = "done"
    /\ testpc' = "joinworkers"
    /\ UNCHANGED << queue_, mutex_, readerpc, nextItem, workerpc, tmp, started,
                    ended, popLog >>
    /\ UNCHANGED engineVars

\* main: for (auto& w : workers) w.join()
JoinWorker ==
    /\ testpc = "joinworkers"
    /\ ended < started
    /\ workerpc[ended] = "done"
    /\ ended' = ended + 1
    /\ testpc' = IF ended + 1 = started THEN "finish" ELSE testpc
    /\ UNCHANGED << queue_, mutex_, readerpc, nextItem, workerpc, tmp, started,
                    popLog >>
    /\ UNCHANGED engineVars

\* main: std::cout << "finish!\n"; return 0
Finish ==
    /\ testpc = "finish"
    /\ testpc' = "exit"
    /\ UNCHANGED << queue_, mutex_, readerpc, nextItem, workerpc, tmp, started,
                    ended, popLog >>
    /\ UNCHANGED engineVars

NextQueue ==
    \/ StartReader
    \/ StartWorker
    \/ PushLock
    \/ PushItem
    \/ \E w \in Poppers : PopLock(w)
    \/ \E w \in Poppers : PopFront(w)
    \/ \E w \in Poppers : PopReturn(w)
    \/ \E w \in Poppers : Consume(w)
    \/ JoinReader
    \/ JoinWorker
    \/ Finish

SpecQueue == InitQueue /\ [][NextQueue]_vars

\* the items pop has returned, in the order of the returns
PoppedItems == [k \in 1 .. Len(popLog) |-> popLog[k].item]

\* the items pushed, in the order the pushes took the lock
PushedItems == [k \in 1 .. nextItem |-> k - 1]

\* a pop that found the queue empty returns the empty optional on its next
\* step, and the queue is as it was
EmptyPopReturns ==
    \A w \in Poppers :
        (workerpc[w] = "locked" /\ queue_ = << >> /\ workerpc'[w] # "locked")
            => /\ workerpc'[w] = "done"
               /\ queue_' = queue_
               /\ popLog' = popLog
               /\ mutex_' = "free"

\* C24: under any interleaving of push and pop no pushed item is returned by
\* two pops, the pops return the items in the order the pushes took the lock
\* (the returned items followed by the queued ones are the pushed ones), and
\* a pop on an empty queue returns the empty optional without waiting for an
\* item and leaves the queue unchanged.
C24_QueueIsFifoOnce ==
    /\ [](/\ \A j, k \in 1 .. Len(popLog) :
                j # k => popLog[j].item # popLog[k].item
          /\ PoppedItems \o queue_ = PushedItems)
    /\ [][EmptyPopReturns]_vars

C24_Witness ==
    /\ \E j, k \in 1 .. Len(popLog) : popLog[j].by # popLog[k].by
    /\ Len(popLog) = MaxItems
    /\ \E w \in Poppers : workerpc[w] = "done"

\* C25: when test.cpp prints "finish!" every item the reader had to push
\* has been consumed by exactly one worker and the queue is empty, and no
\* worker has left its loop while the reader still had items to push.
C25_AllConsumedAtFinish ==
    /\ testpc = "exit" =>
          /\ queue_ = << >>
          /\ \A v \in 0 .. MaxItems - 1 :
                Cardinality({k \in 1 .. Len(popLog) : popLog[k].item = v}) = 1
    /\ \A w \in Poppers : workerpc[w] = "done" => readerpc = "done"

====
